---- MODULE Spec2Model ----
(***************************************************************************)
(* NFT141: a factory (registry) contract that creates one pair (vault)     *)
(* contract per NFT origin, and the pair contract's NEP-141 share ledger.  *)
(*                                                                         *)
(* Account ids and symbols are sequences of one-character strings, so that *)
(* get_pair_contract_name (replace, format, to_lowercase) is computed      *)
(* character by character.                                                 *)
(*                                                                         *)
(* Amounts are u128 in the source.  The model keeps the wrap-around        *)
(* arithmetic but on U128Bits bits, and counts shares in units of          *)
(* 50 * 10^24, so that 100 * 10u128.pow(24) is NftValueInit = 2.           *)
(***************************************************************************)
EXTENDS Integers, Sequences, FiniteSets, Bags, TLC

VARIABLES
    overflow_checks,  \* build profile: TRUE = arithmetic overflow panics, FALSE = it wraps
    vault,            \* pair contract state, per pair account id
    transfers,        \* bag of nft_transfer requests issued by pairs and not yet resolved
    nft_to_token,     \* factory: LookupMap nft origin -> pair account id
    index_to_nft,     \* factory: LookupMap index -> nft origin
    pairs_info,       \* factory: Vec<PairInfos>
    counter,          \* factory: u64
    fee,              \* factory: U128
    receipts,         \* bag of receipts issued by the factory and not yet executed
    custody,          \* number of assets the nft contract holds for the pair TheVault
    ft_calls,         \* bag of ft_transfer_call transfers awaiting ft_resolve_transfer
    last,             \* what an observer saw of the last executed call
    sweep             \* history of the last refreshAllPairsInfo: "none", "clean", "dirty"

vaultVars == <<vault, transfers, custody, ft_calls>>
factoryVars == <<nft_to_token, index_to_nft, pairs_info, counter, fee, receipts>>
vars == <<overflow_checks, vault, transfers, custody, ft_calls, nft_to_token, index_to_nft,
          pairs_info, counter, fee, receipts, last, sweep>>

-----------------------------------------------------------------------------
(* Bounds of the model *)

MaxPending == 2      \* promises of a pair (nft_transfer, ft_on_transfer) in flight at once
MaxIds == 2          \* length of the _ids argument of the batch operations
MaxVaults == 2       \* pairs the factory creates
MaxReceipts == 2     \* factory receipts in flight at once
MaxCache == 2        \* pairs_info entries plus info requests in flight
MaxCustody == 2      \* assets in the custody of one pair
MaxGas == 24         \* prepaid gas of a call, in units of gas

-----------------------------------------------------------------------------
(* Principals and inputs *)

FactoryId == <<"f">>
Alice == <<"u", "1">>
Bob == <<"u", "2">>
NoAccount == <<>>

Names == {"yeti", "punk"}
Medias == {"m1", "m2"}
TokenIds == {"t1"}

\* Arguments of _ids: all sequences of token ids of length 0..MaxIds
IdSeqs == UNION {[1..n -> TokenIds] : n \in 0..MaxIds}

-----------------------------------------------------------------------------
(* u128 arithmetic *)

U128Bits == 3
U128Mod == 2 ^ U128Bits
U128Max == U128Mod - 1

NftValueInit == 2

WrappingMul(a, b) == (a * b) % U128Mod
MulOverflows(a, b) == a * b > U128Max
WrappingSub(a, b) == (a - b + U128Mod) % U128Mod
SubOverflows(a, b) == a < b

-----------------------------------------------------------------------------
(* get_pair_contract_name *)

\* The ASCII letters, upper case and lower case in the same order
Uppercase ==
    <<"A", "B", "C", "D", "E", "F", "G", "H", "I", "J", "K", "L", "M",
      "N", "O", "P", "Q", "R", "S", "T", "U", "V", "W", "X", "Y", "Z">>
Lowercase ==
    <<"a", "b", "c", "d", "e", "f", "g", "h", "i", "j", "k", "l", "m",
      "n", "o", "p", "q", "r", "s", "t", "u", "v", "w", "x", "y", "z">>

\* char::to_lowercase on ASCII: an upper-case letter becomes its lower-case
\* letter, every other character stays
ToLowerChar(c) ==
    IF \E i \in 1..Len(Uppercase) : Uppercase[i] = c
    THEN Lowercase[CHOOSE i \in 1..Len(Uppercase) : Uppercase[i] = c]
    ELSE c

to_lowercase(s) == [i \in 1..Len(s) |-> ToLowerChar(s[i])]

replace_dot(s) == [i \in 1..Len(s) |-> IF s[i] = "." THEN "-" ELSE s[i]]

get_pair_contract_name(_target, current_account_id) ==
    to_lowercase(replace_dot(_target) \o <<".">> \o current_account_id)

-----------------------------------------------------------------------------
(* Pair contract (vault) state *)

NoMetadata == [name |-> "", symbol |-> <<>>, icon |-> ""]

\* deployed: the account exists and holds the pair contract's code;
\* exists: env::state_exists(), the contract has been initialised.
NoState ==
    [deployed |-> FALSE,
     exists |-> FALSE,
     factory_contract_address |-> NoAccount,
     nft_contract_address |-> NoAccount,
     nft_value |-> 0,
     vault_name |-> "",
     vault_symbol |-> <<>>,
     feature_media |-> "",
     metadata |-> NoMetadata,
     accounts |-> <<>>,
     total_supply |-> 0]

NoInfo == [name |-> "", symbol |-> <<>>, supply |-> 0, media |-> ""]

\* LookupMap::insert on the accounts map
Insert(accounts, a, b) ==
    [x \in (DOMAIN accounts) \cup {a} |-> IF x = a THEN b ELSE accounts[x]]

\* FungibleToken::ft_balance_of: accounts.get(id).unwrap_or(0)
ft_balance_of(s, a) == IF a \in DOMAIN s.accounts THEN s.accounts[a] ELSE 0

\* FungibleToken::internal_deposit: the account is registered and neither
\* checked_add overflows
CanDeposit(s, a, amount) ==
    /\ a \in DOMAIN s.accounts
    /\ s.accounts[a] + amount <= U128Max
    /\ s.total_supply + amount <= U128Max

internal_deposit(s, a, amount) ==
    [s EXCEPT !.accounts = Insert(s.accounts, a, s.accounts[a] + amount),
              !.total_supply = s.total_supply + amount]

\* FungibleToken::internal_register_account (caller checks it is absent)
internal_register_account(s, a) ==
    [s EXCEPT !.accounts = Insert(s.accounts, a, 0)]

\* One nft_transfer promise: the pair asks its nft contract to move token_id
\* to receiver_id.
Req(v, receiver, token) ==
    [pair |-> v, receiver_id |-> receiver, token_id |-> token]

\* The loop over _ids stopping one id early
Requests_skip_last(v, receiver, ids) ==
    LET idx == {i \in DOMAIN ids : i < Len(ids)}
        rs == {Req(v, receiver, ids[i]) : i \in idx}
    IN  [r \in rs |-> Cardinality({i \in idx : ids[i] = r.token_id})]

\* The promises of one loop over _ids, as a bag
Requests(v, receiver, ids) ==
    LET rs == {Req(v, receiver, ids[i]) : i \in DOMAIN ids}
    IN  [r \in rs |-> Cardinality({i \in DOMAIN ids : ids[i] = r.token_id})]

\* What an observer sees of a call: the method, whether it returned (ok) or
\* panicked, the number of ids it was given, what a view returned (or the
\* arguments of a setter), the predecessor where a property needs it, and for
\* a deposit the caller's balance and the total supply before the call.  A
\* withdraw that directly follows a successful one-asset deposit by the same
\* account carries that snapshot on (round).  For a call that creates
\* nft_transfer promises, prepaid_gas is the gas prepaid for the call and
\* budgets the gas attached to each promise, in the order of creation.
Observed(op, ok, n, info, who, bal, total, round) ==
    [op |-> op, ok |-> ok, n |-> n, info |-> info, who |-> who,
     bal |-> bal, total |-> total, round |-> round,
     prepaid_gas |-> 0, budgets |-> <<>>]

Obs(op, ok, n, who) == Observed(op, ok, n, NoInfo, who, 0, 0, FALSE)

-----------------------------------------------------------------------------
(* Pair contract methods.  For each method, X_ok(s, ..) says that a call   *)
(* on state s returns rather than panics, and X(v, ..) is the effect of    *)
(* the whole call on pair v; a panic leaves the state as it was and issues *)
(* no promise.                                                             *)

\* init_vault without the assertion on env::state_exists()
init_vault_ok_again(s) == s.deployed

\* assert!(!env::state_exists(), "Already initialized"), on an account that
\* holds the contract
init_vault_ok(s) == s.deployed /\ ~s.exists

init_vault(v, caller, nft_contract_address, vault_name, vault_symbol, feature_media) ==
    LET this == [deployed |-> TRUE,
                 exists |-> TRUE,
                 factory_contract_address |-> caller,
                 nft_contract_address |-> nft_contract_address,
                 nft_value |-> NftValueInit,
                 vault_name |-> vault_name,
                 vault_symbol |-> vault_symbol,
                 feature_media |-> feature_media,
                 metadata |-> [name |-> vault_name, symbol |-> vault_symbol,
                               icon |-> feature_media],
                 accounts |-> <<>>,
                 total_supply |-> 0]
        seeded == internal_deposit(internal_register_account(this, v), v, this.nft_value)
    IN  /\ vault' = IF init_vault_ok(vault[v]) THEN [vault EXCEPT ![v] = seeded] ELSE vault
        /\ UNCHANGED transfers

\* total_supply / nft_value - 1 in u128: division by zero panics in every
\* build; 0 - 1 panics or wraps with the build profile.
get_infos_ok(s) ==
    /\ s.exists
    /\ s.nft_value # 0
    /\ ~(overflow_checks /\ SubOverflows(s.total_supply \div s.nft_value, 1))

\* get_infos without the subtraction of the seed unit
get_infos_with_seed(s) ==
    [name |-> s.vault_name,
     symbol |-> s.vault_symbol,
     supply |-> s.total_supply \div s.nft_value,
     media |-> s.feature_media]

get_infos(s) ==
    [name |-> s.vault_name,
     symbol |-> s.vault_symbol,
     supply |-> WrappingSub(s.total_supply \div s.nft_value, 1),
     media |-> s.feature_media]

swap171_ok(s) == s.exists

swap171(v, caller, signer, _in, _out) ==
    /\ UNCHANGED vault
    /\ transfers' = IF swap171_ok(vault[v])
                    THEN transfers (+) SetToBag({Req(v, v, _in)})
                                   (+) SetToBag({Req(v, signer, _out)})
                    ELSE transfers

\* the amount with the loop bound off by one
deposit_amount_off_by_one(s, _ids) == WrappingMul(Len(_ids) + 1, s.nft_value)

\* _ids.len() as u128 * self.nft_value.0
deposit_amount(s, _ids) == WrappingMul(Len(_ids), s.nft_value)

\* the account as multi_nft_deposits leaves it before internal_deposit
registered(s, caller) ==
    IF caller \in DOMAIN s.accounts THEN s ELSE internal_register_account(s, caller)

multi_nft_deposits_ok(s, caller, _ids) ==
    /\ s.exists
    /\ ~(overflow_checks /\ MulOverflows(Len(_ids), s.nft_value))
    /\ CanDeposit(registered(s, caller), caller, deposit_amount(s, _ids))

multi_nft_deposits(v, caller, _ids) ==
    LET s == vault[v]
        ok == multi_nft_deposits_ok(s, caller, _ids)
    IN  /\ vault' = IF ok
                    THEN [vault EXCEPT ![v] = internal_deposit(registered(s, caller), caller,
                                                               deposit_amount(s, _ids))]
                    ELSE vault
        /\ transfers' = IF ok THEN transfers (+) Requests(v, v, _ids) ELSE transfers

\* burn without the total_supply update
burn_keeps_supply(s, user_account, user_balance, amount) ==
    [s EXCEPT !.accounts = Insert(s.accounts, user_account, user_balance - amount)]

\* "Burn nep141 in wallet": accounts.insert(user, balance - amount);
\* total_supply -= amount
burn(s, user_account, user_balance, amount) ==
    [s EXCEPT !.accounts = Insert(s.accounts, user_account, user_balance - amount),
              !.total_supply = WrappingSub(s.total_supply, amount)]

withdraw_ok(s, caller) ==
    /\ s.exists
    /\ ft_balance_of(s, caller) >= s.nft_value
    /\ ~(overflow_checks /\ SubOverflows(s.total_supply, s.nft_value))

withdraw(v, caller, _id) ==
    LET s == vault[v]
        ok == withdraw_ok(s, caller)
    IN  /\ vault' = IF ok
                    THEN [vault EXCEPT ![v] = burn(s, caller, ft_balance_of(s, caller),
                                                   s.nft_value)]
                    ELSE vault
        /\ transfers' = IF ok THEN transfers (+) SetToBag({Req(v, caller, _id)})
                        ELSE transfers

\* self.nft_value.0 * _ids.len() as u128
batch_value(s, _ids) == WrappingMul(s.nft_value, Len(_ids))

batch_withdraw_ok(s, caller, _ids) ==
    /\ s.exists
    /\ ~(overflow_checks /\ MulOverflows(s.nft_value, Len(_ids)))
    /\ ft_balance_of(s, caller) >= batch_value(s, _ids)
    /\ ~(overflow_checks /\ SubOverflows(s.total_supply, batch_value(s, _ids)))

batch_withdraw(v, caller, _ids) ==
    LET s == vault[v]
        ok == batch_withdraw_ok(s, caller, _ids)
    IN  /\ vault' = IF ok
                    THEN [vault EXCEPT ![v] = burn(s, caller, ft_balance_of(s, caller),
                                                   batch_value(s, _ids))]
                    ELSE vault
        /\ transfers' = IF ok THEN transfers (+) Requests(v, caller, _ids) ELSE transfers

setParams_ok(s, caller) == s.exists /\ caller = s.factory_contract_address

set_fields(s, _name, _symbol, _value, _media) ==
    [s EXCEPT !.vault_name = _name,
              !.vault_symbol = _symbol,
              !.nft_value = _value,
              !.feature_media = _media]

setParams(v, caller, _name, _symbol, _value, _media) ==
    /\ vault' = IF setParams_ok(vault[v], caller)
                THEN [vault EXCEPT ![v] = set_fields(vault[v], _name, _symbol, _value, _media)]
                ELSE vault
    /\ UNCHANGED transfers

\* impl_fungible_token_core!: ft_transfer (FungibleToken::internal_transfer)
ft_transfer_ok(s, caller, receiver_id, amount) ==
    /\ s.exists
    /\ caller # receiver_id
    /\ amount > 0
    /\ caller \in DOMAIN s.accounts
    /\ s.accounts[caller] >= amount
    /\ s.total_supply >= amount
    /\ receiver_id \in DOMAIN s.accounts
    /\ s.accounts[receiver_id] + amount <= U128Max

ft_transfer(v, caller, receiver_id, amount) ==
    LET s == vault[v]
        moved == [s EXCEPT !.accounts =
                    [x \in DOMAIN s.accounts |->
                        IF x = caller THEN s.accounts[x] - amount
                        ELSE IF x = receiver_id THEN s.accounts[x] + amount
                        ELSE s.accounts[x]]]
    IN  /\ vault' = IF ft_transfer_ok(s, caller, receiver_id, amount)
                    THEN [vault EXCEPT ![v] = moved] ELSE vault
        /\ UNCHANGED transfers

\* impl_fungible_token_storage!: storage_deposit registers the caller's
\* account with balance 0 when it is absent
storage_deposit_ok(s) == s.exists

storage_deposit(v, caller) ==
    LET s == vault[v]
    IN  /\ vault' = IF storage_deposit_ok(s) /\ caller \notin DOMAIN s.accounts
                    THEN [vault EXCEPT ![v] = internal_register_account(s, caller)]
                    ELSE vault
        /\ UNCHANGED transfers

\* ft_transfer_call: the transfer of ft_transfer, then the promise
\* ft_on_transfer on the receiver with the callback ft_resolve_transfer
FtCall(v, sender_id, receiver_id, amount) ==
    [pair |-> v, sender_id |-> sender_id, receiver_id |-> receiver_id, amount |-> amount]

ft_transfer_call_ok(s, caller, receiver_id, amount) ==
    ft_transfer_ok(s, caller, receiver_id, amount)

ft_transfer_call(v, caller, receiver_id, amount) ==
    /\ ft_transfer(v, caller, receiver_id, amount)
    /\ ft_calls' = IF ft_transfer_call_ok(vault[v], caller, receiver_id, amount)
                   THEN ft_calls (+) SetToBag({FtCall(v, caller, receiver_id, amount)})
                   ELSE ft_calls

Min(a, b) == IF a < b THEN a ELSE b

\* LookupMap::remove on the accounts map
Remove(accounts, a) == [x \in (DOMAIN accounts) \ {a} |-> accounts[x]]

\* FungibleToken::internal_ft_resolve_transfer: of the unused amount the
\* receiver reports (the whole amount when ft_on_transfer failed), what the
\* receiver still holds goes back to the sender, or is burned when the
\* sender's account was closed
refund_amount(s, c, unused) == Min(ft_balance_of(s, c.receiver_id), Min(c.amount, unused))

\* sender_balance + refund_amount and total_supply -= refund_amount in u128
ft_resolve_transfer_ok(s, c, unused) ==
    LET refund == refund_amount(s, c, unused)
    IN  ~overflow_checks \/ refund = 0 \/
            IF c.sender_id \in DOMAIN s.accounts
            THEN s.accounts[c.sender_id] + refund <= U128Max
            ELSE ~SubOverflows(s.total_supply, refund)

ft_resolve_transfer_state(s, c, unused) ==
    LET refund == refund_amount(s, c, unused)
        taken == [s EXCEPT !.accounts = Insert(s.accounts, c.receiver_id,
                                               ft_balance_of(s, c.receiver_id) - refund)]
    IN  IF refund = 0 THEN s
        ELSE IF c.sender_id \in DOMAIN s.accounts
        THEN [taken EXCEPT !.accounts =
                 Insert(taken.accounts, c.sender_id,
                        (taken.accounts[c.sender_id] + refund) % U128Mod)]
        ELSE [taken EXCEPT !.total_supply = WrappingSub(s.total_supply, refund)]

ft_resolve_transfer(c, unused) ==
    LET s == vault[c.pair]
    IN  /\ BagIn(c, ft_calls)
        /\ ft_calls' = ft_calls (-) SetToBag({c})
        /\ vault' = IF ft_resolve_transfer_ok(s, c, unused)
                    THEN [vault EXCEPT ![c.pair] = ft_resolve_transfer_state(s, c, unused)]
                    ELSE vault

\* impl_fungible_token_storage!: storage_unregister removes the caller's
\* account when its balance is 0 or force is set, and takes the balance off
\* the total supply (total_supply -= balance in u128); with a positive
\* balance and no force it panics; for an absent account it returns false
storage_unregister_ok(s, caller, force) ==
    /\ s.exists
    /\ caller \in DOMAIN s.accounts =>
          /\ s.accounts[caller] = 0 \/ force
          /\ ~(overflow_checks /\ SubOverflows(s.total_supply, s.accounts[caller]))

storage_unregister(v, caller, force) ==
    LET s == vault[v]
    IN  /\ vault' = IF storage_unregister_ok(s, caller, force) /\ caller \in DOMAIN s.accounts
                    THEN [vault EXCEPT ![v] =
                            [s EXCEPT !.accounts = Remove(s.accounts, caller),
                                      !.total_supply = WrappingSub(s.total_supply,
                                                                   s.accounts[caller])]]
                    ELSE vault
        /\ UNCHANGED transfers

\* The request moves an asset into the custody of the pair that issued it
Inbound(r) == r.receiver_id = r.pair

\* A resolution that gives the receiver of an outbound request its shares back
resolve_transfer_refunding(r) ==
    LET s == vault[r.pair]
        refund == ~Inbound(r) /\ CanDeposit(s, r.receiver_id, s.nft_value)
    IN  /\ BagIn(r, transfers)
        /\ transfers' = transfers (-) SetToBag({r})
        /\ vault' = IF refund
                    THEN [vault EXCEPT ![r.pair] = internal_deposit(s, r.receiver_id, s.nft_value)]
                    ELSE vault

\* An nft_transfer promise resolves; no callback is attached to it, so the
\* pair never learns the outcome.
resolve_transfer(r) ==
    /\ BagIn(r, transfers)
    /\ transfers' = transfers (-) SetToBag({r})
    /\ UNCHANGED vault

\* The nft contract can carry out the request: it hands out only an asset
\* the pair holds
CanMove(r, held) == Inbound(r) \/ held > 0

\* The pair's custody after the request resolved with the given outcome
custody_after(r, outcome, held) ==
    IF ~outcome THEN held
    ELSE IF Inbound(r) THEN held + 1 ELSE held - 1

-----------------------------------------------------------------------------
(* Factory contract (registry) *)

Origins == {<<"n", "1">>, <<"n", "2">>}
Symbols == {<<"Y">>, <<".">>}

PairIds == {get_pair_contract_name(s, FactoryId) : s \in Symbols}

\* serde_json of U128: a decimal string
Digits == <<"0", "1", "2", "3", "4", "5", "6", "7", "8", "9">>

RECURSIVE U128ToJson(_)
U128ToJson(n) ==
    IF n < 10 THEN <<Digits[n + 1]>>
    ELSE U128ToJson(n \div 10) \o <<Digits[(n % 10) + 1]>>

DigitValue(c) == CHOOSE d \in 0..9 : Digits[d + 1] = c

RECURSIVE U128FromJson(_)
U128FromJson(str) ==
    IF Len(str) = 1 THEN DigitValue(str[1])
    ELSE 10 * U128FromJson(SubSeq(str, 1, Len(str) - 1)) + DigitValue(str[Len(str)])

\* The pair serialises its PairInfos; the factory deserialises its own PairInfos
to_json(info) == [info EXCEPT !.supply = U128ToJson(info.supply)]
from_slice(result) == [result EXCEPT !.supply = U128FromJson(result.supply)]

NoArgs == [nft |-> NoAccount, name |-> "", symbol |-> <<>>, value |-> 0, media |-> ""]
NoResult == [name |-> "", symbol |-> <<>>, supply |-> <<>>, media |-> ""]

\* A receipt issued by the factory: method `kind` to run on account `to`
Receipt(kind, to, args, ok, result) ==
    [kind |-> kind, to |-> to, args |-> args, ok |-> ok, result |-> result,
     predecessor |-> FactoryId]

CreateReceipt(pair) == Receipt("create_account", pair, NoArgs, TRUE, NoResult)
InitReceipt(pair, nft, name, symbol, media) ==
    Receipt("init_vault", pair,
            [nft |-> nft, name |-> name, symbol |-> symbol, value |-> 0, media |-> media],
            TRUE, NoResult)
InfosReceipt(pair) == Receipt("get_infos", pair, NoArgs, TRUE, NoResult)
CallbackReceipt(ok, result) == Receipt("pair_info_callback", FactoryId, NoArgs, ok, result)

\* pair_info_callback is an exported method without a test of its
\* predecessor: another account can attach it with .then() to a promise of
\* its own, whose result becomes promise_result(0)
ForeignCallback(who, result) == [CallbackReceipt(TRUE, result) EXCEPT !.predecessor = who]
ForeignInfo == [name |-> "fake", symbol |-> <<"y">>, supply |-> 1, media |-> "m1"]
ParamsReceipt(pair, name, symbol, value, media) ==
    Receipt("setParams", pair,
            [nft |-> NoAccount, name |-> name, symbol |-> symbol, value |-> value,
             media |-> media],
            TRUE, NoResult)

Put(map, k, val) == [x \in (DOMAIN map) \cup {k} |-> IF x = k THEN val ELSE map[x]]

\* nft141Pair without the assertion on the origin
nft141Pair_ok_unchecked(nft_origin) == TRUE

\* assert_eq!(self.nft_to_token.get(&nft_origin), None, ..)
nft141Pair_ok(nft_origin) == nft_origin \notin DOMAIN nft_to_token

\* nft141Pair without the counter increment
nft141Pair_same_index(name, nft_origin, nft_symbol, feature_media) ==
    LET pair_contract == get_pair_contract_name(nft_symbol, FactoryId)
    IN  /\ IF nft_origin \notin DOMAIN nft_to_token
           THEN /\ receipts' = receipts (+) SetToBag({CreateReceipt(pair_contract)})
                                   (+) SetToBag({InitReceipt(pair_contract, nft_origin, name,
                                                             nft_symbol, feature_media)})
                /\ nft_to_token' = Put(nft_to_token, nft_origin, pair_contract)
                /\ index_to_nft' = Put(index_to_nft, counter, nft_origin)
                /\ counter' = counter
           ELSE UNCHANGED <<receipts, nft_to_token, index_to_nft, counter>>
        /\ UNCHANGED <<pairs_info, fee>>

nft141Pair(name, nft_origin, nft_symbol, feature_media) ==
    LET pair_contract == get_pair_contract_name(nft_symbol, FactoryId)
    IN  /\ IF nft141Pair_ok(nft_origin)
           THEN /\ receipts' = receipts (+) SetToBag({CreateReceipt(pair_contract)})
                                   (+) SetToBag({InitReceipt(pair_contract, nft_origin, name,
                                                             nft_symbol, feature_media)})
                /\ nft_to_token' = Put(nft_to_token, nft_origin, pair_contract)
                /\ index_to_nft' = Put(index_to_nft, counter, nft_origin)
                /\ counter' = counter + 1
           ELSE UNCHANGED <<receipts, nft_to_token, index_to_nft, counter>>
        /\ UNCHANGED <<pairs_info, fee>>

\* index_to_nft.get(&index).unwrap(), nft_to_token.get(&_originalNft).unwrap()
getPairByNftAddress_ok(index) ==
    /\ index \in DOMAIN index_to_nft
    /\ index_to_nft[index] \in DOMAIN nft_to_token

getPairAddressByIndex(index) == nft_to_token[index_to_nft[index]]

getPairByNftAddress(index) ==
    /\ receipts' = IF getPairByNftAddress_ok(index)
                   THEN receipts (+) SetToBag({InfosReceipt(getPairAddressByIndex(index))})
                   ELSE receipts
    /\ UNCHANGED <<nft_to_token, index_to_nft, counter, pairs_info, fee>>

\* The get_infos promises of one sweep over 0..counter-1, as a bag
Sweep ==
    LET pairs == {getPairAddressByIndex(i) : i \in 0..(counter - 1)}
    IN  [r \in {InfosReceipt(p) : p \in pairs} |->
            Cardinality({i \in 0..(counter - 1) : getPairAddressByIndex(i) = r.to})]

refreshAllPairsInfo_ok == \A i \in 0..(counter - 1) : getPairByNftAddress_ok(i)

\* refreshAllPairsInfo without the clear
cleared_nothing(infos) == infos

\* self.pairs_info.clear()
cleared(infos) == <<>>

refreshAllPairsInfo ==
    /\ pairs_info' = IF refreshAllPairsInfo_ok THEN cleared(pairs_info) ELSE pairs_info
    /\ receipts' = IF refreshAllPairsInfo_ok THEN receipts (+) Sweep ELSE receipts
    /\ UNCHANGED <<nft_to_token, index_to_nft, counter, fee>>

getAllPairsInfo == pairs_info

getCounter == counter

setValue(_pair, _name, _symbol, _value, _media) ==
    /\ receipts' = receipts (+) SetToBag({ParamsReceipt(_pair, _name, _symbol, _value, _media)})
    /\ UNCHANGED <<nft_to_token, index_to_nft, counter, pairs_info, fee>>

setFee(_fee) ==
    /\ fee' = _fee
    /\ UNCHANGED <<nft_to_token, index_to_nft, counter, pairs_info, receipts>>

\* pair_info_callback pushing an entry whatever the promise result is
pair_info_callback_ignoring_failure(r) ==
    /\ BagIn(r, receipts)
    /\ r.kind = "pair_info_callback"
    /\ receipts' = receipts (-) SetToBag({r})
    /\ pairs_info' = Append(pairs_info, IF r.ok THEN from_slice(r.result) ELSE NoInfo)
    /\ UNCHANGED <<nft_to_token, index_to_nft, counter, fee>>

\* pair_info_callback pushing the entry twice
pair_info_callback_pushing_twice(r) ==
    /\ BagIn(r, receipts)
    /\ r.kind = "pair_info_callback"
    /\ receipts' = receipts (-) SetToBag({r})
    /\ pairs_info' = IF r.ok
                     THEN Append(Append(pairs_info, from_slice(r.result)), from_slice(r.result))
                     ELSE pairs_info
    /\ UNCHANGED <<nft_to_token, index_to_nft, counter, fee>>

\* env::promise_result(0) is Successful(result) or Failed; Failed hits
\* unreachable!() and the call panics
pair_info_callback(r) ==
    /\ BagIn(r, receipts)
    /\ r.kind = "pair_info_callback"
    /\ receipts' = receipts (-) SetToBag({r})
    /\ pairs_info' = IF r.ok THEN Append(pairs_info, from_slice(r.result)) ELSE pairs_info
    /\ UNCHANGED <<nft_to_token, index_to_nft, counter, fee>>

-----------------------------------------------------------------------------
(* Execution of the factory's receipts on the pair accounts *)

\* Promise::new(pair).create_account().transfer().add_full_access_key()
\* .deploy_contract(): fails when the account already exists
create_account_ok(s) == ~s.deployed

create_account(r) ==
    /\ BagIn(r, receipts)
    /\ r.kind = "create_account"
    /\ receipts' = receipts (-) SetToBag({r})
    /\ vault' = IF create_account_ok(vault[r.to])
                THEN [vault EXCEPT ![r.to].deployed = TRUE] ELSE vault
    /\ UNCHANGED transfers

run_init_vault(r) ==
    /\ BagIn(r, receipts)
    /\ r.kind = "init_vault"
    /\ receipts' = receipts (-) SetToBag({r})
    /\ init_vault(r.to, FactoryId, r.args.nft, r.args.name, r.args.symbol, r.args.media)

run_setParams(r) ==
    /\ BagIn(r, receipts)
    /\ r.kind = "setParams"
    /\ receipts' = receipts (-) SetToBag({r})
    /\ setParams(r.to, FactoryId, r.args.name, r.args.symbol, r.args.value, r.args.media)

\* ext_pair::get_infos(..).then(ext_self::pair_info_callback(..)): the pair
\* runs get_infos, and its outcome becomes the callback's promise result
run_get_infos(r) ==
    LET s == vault[r.to]
        ok == get_infos_ok(s)
    IN  /\ BagIn(r, receipts)
        /\ r.kind = "get_infos"
        /\ receipts' = (receipts (-) SetToBag({r}))
                          (+) SetToBag({CallbackReceipt(ok, IF ok THEN to_json(get_infos(s))
                                                               ELSE NoResult)})
        /\ UNCHANGED <<vault, transfers>>

-----------------------------------------------------------------------------
(* Gas attached by the pair methods to the nft_transfer promises they      *)
(* create, one entry per promise in the order of creation                  *)

\* env::prepaid_gas() / 2 for the inbound and for the outbound transfer
swap171_gas(prepaid_gas) == <<prepaid_gas \div 2, prepaid_gas \div 2>>

\* env::prepaid_gas() / 2 in every iteration of the loop
multi_nft_deposits_gas(prepaid_gas, _ids) == [i \in 1..Len(_ids) |-> prepaid_gas \div 2]

\* env::prepaid_gas() / 3
withdraw_gas(prepaid_gas) == <<prepaid_gas \div 3>>

\* env::prepaid_gas() / 2 in every iteration of the loop
batch_withdraw_gas(prepaid_gas, _ids) == [i \in 1..Len(_ids) |-> prepaid_gas \div 2]

RECURSIVE SumGas(_)
SumGas(budgets) ==
    IF budgets = <<>> THEN 0 ELSE budgets[1] + SumGas(Tail(budgets))

\* The observation of a call that returned after attaching the budgets; a
\* call that panicked created no promise
Metered(obs, prepaid_gas, budgets) ==
    IF obs.ok THEN [obs EXCEPT !.prepaid_gas = prepaid_gas, !.budgets = budgets] ELSE obs

-----------------------------------------------------------------------------
(* Specification of one pair contract: the share ledger under direct calls *)

TheVault == get_pair_contract_name(<<"y">>, FactoryId)
Holders == {Alice, Bob}
Principals == {FactoryId, Alice}
ParamValues == {0, 4}

\* Prepaid gas of the calls: one value in the ledger specification, every
\* value up to the bound in the specification of the attached gas
CallGas == {MaxGas}
PrepaidGas == 1..MaxGas
Amounts == {0, 2}

\* The (name, symbol, media) arguments of setParams
ParamSets == {<<"punk", <<"p">>, "m2">>}

NoCall == Obs("none", TRUE, 0, NoAccount)

FactoryInit ==
    /\ nft_to_token = <<>>
    /\ index_to_nft = <<>>
    /\ pairs_info = <<>>
    /\ counter = 0
    /\ fee = 0
    /\ receipts = EmptyBag
    /\ sweep = "none"

Init ==
    /\ overflow_checks \in BOOLEAN
    /\ vault = [p \in PairIds |->
                  IF p = TheVault THEN [NoState EXCEPT !.deployed = TRUE] ELSE NoState]
    /\ transfers = EmptyBag
    /\ custody = 0
    /\ ft_calls = EmptyBag
    /\ FactoryInit
    /\ last = NoCall

Room(n) == BagCardinality(transfers) + BagCardinality(ft_calls) + n <= MaxPending

V == vault[TheVault]

Aside == UNCHANGED <<overflow_checks, factoryVars, sweep>>

Held == UNCHANGED <<custody, ft_calls>>

Call_init_vault ==
    \E c \in Principals :
        /\ init_vault(TheVault, c, <<"n", "1">>, "yeti", <<"y">>, "m1")
        /\ last' = Obs("init_vault", init_vault_ok(V), 0, c)
        /\ Held
        /\ Aside

Call_get_infos ==
    /\ UNCHANGED <<vault, transfers>>
    /\ Held
    /\ last' = Observed("get_infos", get_infos_ok(V), 0,
                        IF get_infos_ok(V) THEN get_infos(V) ELSE NoInfo,
                        NoAccount, 0, 0, FALSE)
    /\ Aside

\* One call of swap171 with its observation
Step_swap171(c, signer, i, o, prepaid_gas) ==
        /\ Room(2)
        /\ swap171(TheVault, c, signer, i, o)
        /\ last' = Metered(Obs("swap171", swap171_ok(V), 2, c),
                           prepaid_gas, swap171_gas(prepaid_gas))
        /\ Held
        /\ Aside

Call_swap171 ==
    \E c \in Holders, signer \in Holders, i \in TokenIds, o \in TokenIds,
       prepaid_gas \in CallGas :
        Step_swap171(c, signer, i, o, prepaid_gas)

Step_multi_nft_deposits(c, ids, prepaid_gas) ==
        /\ Room(Len(ids))
        /\ multi_nft_deposits(TheVault, c, ids)
        /\ last' = Metered(Observed("multi_nft_deposits",
                                    multi_nft_deposits_ok(V, c, ids), Len(ids),
                                    NoInfo, c, ft_balance_of(V, c), V.total_supply, FALSE),
                           prepaid_gas, multi_nft_deposits_gas(prepaid_gas, ids))
        /\ Held
        /\ Aside

Call_multi_nft_deposits ==
    \E c \in Holders, ids \in IdSeqs, prepaid_gas \in CallGas :
        Step_multi_nft_deposits(c, ids, prepaid_gas)

\* the call before this one was a successful deposit of one asset by c
JustDeposited(c) ==
    /\ last.op = "multi_nft_deposits"
    /\ last.ok
    /\ last.n = 1
    /\ last.who = c

Step_withdraw(c, id, prepaid_gas) ==
        /\ Room(1)
        /\ withdraw(TheVault, c, id)
        /\ last' = Metered(IF JustDeposited(c)
                           THEN Observed("withdraw", withdraw_ok(V, c), 1, NoInfo, c,
                                         last.bal, last.total, TRUE)
                           ELSE Obs("withdraw", withdraw_ok(V, c), 1, c),
                           prepaid_gas, withdraw_gas(prepaid_gas))
        /\ Held
        /\ Aside

Call_withdraw ==
    \E c \in Holders, id \in TokenIds, prepaid_gas \in CallGas :
        Step_withdraw(c, id, prepaid_gas)

Step_batch_withdraw(c, ids, prepaid_gas) ==
        /\ Room(Len(ids))
        /\ batch_withdraw(TheVault, c, ids)
        /\ last' = Metered(Obs("batch_withdraw", batch_withdraw_ok(V, c, ids), Len(ids), c),
                           prepaid_gas, batch_withdraw_gas(prepaid_gas, ids))
        /\ Held
        /\ Aside

Call_batch_withdraw ==
    \E c \in Holders, ids \in IdSeqs, prepaid_gas \in CallGas :
        Step_batch_withdraw(c, ids, prepaid_gas)

Call_setParams ==
    \E c \in Principals, m \in ParamSets, value \in ParamValues :
        /\ setParams(TheVault, c, m[1], m[2], value, m[3])
        /\ last' = Observed("setParams", setParams_ok(V, c), 0,
                            IF setParams_ok(V, c)
                            THEN [name |-> m[1], symbol |-> m[2], supply |-> value,
                                  media |-> m[3]]
                            ELSE NoInfo,
                            c, 0, 0, FALSE)
        /\ Held
        /\ Aside

Call_ft_transfer ==
    \E c \in Holders, r \in Holders, amount \in Amounts :
        /\ ft_transfer(TheVault, c, r, amount)
        /\ last' = Obs("ft_transfer", ft_transfer_ok(V, c, r, amount), 0, NoAccount)
        /\ Held
        /\ Aside

Call_storage_deposit ==
    \E c \in Holders :
        /\ storage_deposit(TheVault, c)
        /\ last' = Obs("storage_deposit", storage_deposit_ok(V), 0, NoAccount)
        /\ Held
        /\ Aside

Call_ft_transfer_call ==
    \E c \in {Alice}, r \in {Bob}, amount \in Amounts :
        /\ Room(1)
        /\ ft_transfer_call(TheVault, c, r, amount)
        /\ last' = Obs("ft_transfer_call", ft_transfer_call_ok(V, c, r, amount), 0, NoAccount)
        /\ UNCHANGED custody
        /\ Aside

\* The receiver's ft_on_transfer has resolved: unused is the amount it
\* reports back, or the whole amount when it failed
Run_ft_resolve_transfer ==
    \E c \in BagToSet(ft_calls), unused \in Amounts :
        /\ ft_resolve_transfer(c, unused)
        /\ last' = Obs("ft_resolve_transfer", ft_resolve_transfer_ok(V, c, unused), 0,
                       NoAccount)
        /\ UNCHANGED <<transfers, custody>>
        /\ Aside

Call_storage_unregister ==
    \E c \in {Alice}, force \in BOOLEAN :
        /\ storage_unregister(TheVault, c, force)
        /\ last' = Obs("storage_unregister", storage_unregister_ok(V, c, force), 0, NoAccount)
        /\ Held
        /\ Aside

Resolve_nft_transfer ==
    \E r \in BagToSet(transfers), outcome \in BOOLEAN :
        /\ outcome => CanMove(r, custody)
        /\ (outcome /\ Inbound(r)) => custody < MaxCustody
        /\ resolve_transfer(r)
        /\ custody' = custody_after(r, outcome, custody)
        /\ last' = Obs("nft_transfer", outcome, 0, NoAccount)
        /\ UNCHANGED ft_calls
        /\ Aside

Next ==
    \/ Call_init_vault
    \/ Call_get_infos
    \/ Call_swap171
    \/ Call_multi_nft_deposits
    \/ Call_withdraw
    \/ Call_batch_withdraw
    \/ Call_setParams
    \/ Call_ft_transfer
    \/ Call_storage_deposit
    \/ Call_ft_transfer_call
    \/ Run_ft_resolve_transfer
    \/ Call_storage_unregister
    \/ Resolve_nft_transfer

Spec == Init /\ [][Next]_vars

-----------------------------------------------------------------------------
(* Specification of the factory with the pairs it creates *)

Fees == {0}

InitFactory ==
    /\ overflow_checks \in BOOLEAN
    /\ vault = [p \in PairIds |-> NoState]
    /\ transfers = EmptyBag
    /\ custody = 0
    /\ ft_calls = EmptyBag
    /\ FactoryInit
    /\ last = NoCall

InFlight(kinds) ==
    BagCardinality([r \in {x \in BagToSet(receipts) : x.kind \in kinds} |-> receipts[r]])

InfoKinds == {"get_infos", "pair_info_callback"}

ReceiptRoom(n) == BagCardinality(receipts) + n <= MaxReceipts

Tainted == IF sweep = "none" THEN "none" ELSE "dirty"

Tx_nft141Pair ==
    \E origin \in Origins, symbol \in Symbols :
        /\ ~nft141Pair_ok(origin) \/ (counter < MaxVaults /\ ReceiptRoom(2))
        /\ nft141Pair("yeti", origin, symbol, "m1")
        /\ last' = Obs("nft141Pair", nft141Pair_ok(origin), 0, origin)
        /\ sweep' = IF nft141Pair_ok(origin) THEN Tainted ELSE sweep
        /\ UNCHANGED <<overflow_checks, vaultVars>>

Tx_getPairByNftAddress ==
    \E index \in 0..counter :
        /\ ~getPairByNftAddress_ok(index)
             \/ (ReceiptRoom(1) /\ Len(pairs_info) + InFlight(InfoKinds) < MaxCache)
        /\ getPairByNftAddress(index)
        /\ last' = Obs("getPairByNftAddress", getPairByNftAddress_ok(index), index, NoAccount)
        /\ sweep' = IF getPairByNftAddress_ok(index) THEN Tainted ELSE sweep
        /\ UNCHANGED <<overflow_checks, vaultVars>>

Tx_refreshAllPairsInfo ==
    /\ ReceiptRoom(counter)
    /\ InFlight(InfoKinds) + counter <= MaxCache
    /\ refreshAllPairsInfo
    /\ last' = Obs("refreshAllPairsInfo", refreshAllPairsInfo_ok, 0, NoAccount)
    /\ sweep' = IF InFlight(InfoKinds) = 0 THEN "clean" ELSE "dirty"
    /\ UNCHANGED <<overflow_checks, vaultVars>>

Tx_setValue ==
    \E pair \in {TheVault}, m \in {<<"punk", <<"p">>, "m2">>}, value \in {3} :
        /\ ReceiptRoom(1)
        /\ setValue(pair, m[1], m[2], value, m[3])
        /\ last' = Obs("setValue", TRUE, 0, NoAccount)
        /\ UNCHANGED <<overflow_checks, vaultVars, sweep>>

Tx_setFee ==
    \E f \in Fees :
        /\ setFee(f)
        /\ last' = Obs("setFee", TRUE, 0, NoAccount)
        /\ UNCHANGED <<overflow_checks, vaultVars, sweep>>

Run_pair_info_callback ==
    \E r \in BagToSet(receipts) :
        /\ pair_info_callback(r)
        /\ last' = Observed("pair_info_callback", r.ok, 0,
                            IF r.ok THEN from_slice(r.result) ELSE NoInfo,
                            r.predecessor, 0, 0, FALSE)
        /\ sweep' = IF r.ok THEN sweep ELSE Tainted
        /\ UNCHANGED <<overflow_checks, vaultVars>>

\* Another account attaches pair_info_callback to a promise of its own
\* that resolves to a PairInfos of its choice
Tx_pair_info_callback ==
    \E who \in {Alice} :
        /\ ReceiptRoom(1)
        /\ Len(pairs_info) + InFlight(InfoKinds) < MaxCache
        /\ receipts' = receipts (+) SetToBag({ForeignCallback(who, to_json(ForeignInfo))})
        /\ last' = Obs("then", TRUE, 0, who)
        /\ sweep' = Tainted
        /\ UNCHANGED <<overflow_checks, vaultVars, nft_to_token, index_to_nft, counter,
                       pairs_info, fee>>

Kept == UNCHANGED <<overflow_checks, custody, ft_calls, nft_to_token, index_to_nft, counter, pairs_info, fee>>

Run_create_account ==
    \E r \in BagToSet(receipts) :
        /\ create_account(r)
        /\ last' = Obs("create_account", create_account_ok(vault[r.to]), 0, NoAccount)
        /\ UNCHANGED sweep
        /\ Kept

Run_init_vault ==
    \E r \in BagToSet(receipts) :
        /\ run_init_vault(r)
        /\ last' = Obs("init_vault", init_vault_ok(vault[r.to]), 0, FactoryId)
        /\ UNCHANGED sweep
        /\ Kept

Run_get_infos ==
    \E r \in BagToSet(receipts) :
        /\ run_get_infos(r)
        /\ last' = Observed("get_infos", get_infos_ok(vault[r.to]), 0,
                            IF get_infos_ok(vault[r.to]) THEN get_infos(vault[r.to]) ELSE NoInfo,
                            NoAccount, 0, 0, FALSE)
        /\ UNCHANGED sweep
        /\ Kept

Run_setParams ==
    \E r \in BagToSet(receipts) :
        /\ run_setParams(r)
        /\ last' = Observed("setParams", setParams_ok(vault[r.to], FactoryId), 0,
                            IF setParams_ok(vault[r.to], FactoryId)
                            THEN [name |-> r.args.name, symbol |-> r.args.symbol,
                                  supply |-> r.args.value, media |-> r.args.media]
                            ELSE NoInfo,
                            FactoryId, 0, 0, FALSE)
        /\ sweep' = IF setParams_ok(vault[r.to], FactoryId) THEN Tainted ELSE sweep
        /\ Kept

NextFactory ==
    \/ Tx_nft141Pair
    \/ Tx_getPairByNftAddress
    \/ Tx_refreshAllPairsInfo
    \/ Tx_setValue
    \/ Tx_setFee
    \/ Tx_pair_info_callback
    \/ Run_pair_info_callback
    \/ Run_create_account
    \/ Run_init_vault
    \/ Run_get_infos
    \/ Run_setParams

SpecFactory == InitFactory /\ [][NextFactory]_vars

-----------------------------------------------------------------------------
(* Specification of the attached gas: one pair, one caller, the calls that *)
(* create nft_transfer promises with every prepaid gas up to the bound     *)

InitGas == Init

GasCaller == Alice

Gas_swap171 ==
    \E i \in TokenIds, o \in TokenIds, prepaid_gas \in PrepaidGas :
        Step_swap171(GasCaller, GasCaller, i, o, prepaid_gas)

Gas_multi_nft_deposits ==
    \E ids \in IdSeqs, prepaid_gas \in PrepaidGas :
        Step_multi_nft_deposits(GasCaller, ids, prepaid_gas)

Gas_withdraw ==
    \E id \in TokenIds, prepaid_gas \in PrepaidGas :
        Step_withdraw(GasCaller, id, prepaid_gas)

Gas_batch_withdraw ==
    \E ids \in IdSeqs, prepaid_gas \in PrepaidGas :
        Step_batch_withdraw(GasCaller, ids, prepaid_gas)

NextGas ==
    \/ Call_init_vault
    \/ Gas_swap171
    \/ Gas_multi_nft_deposits
    \/ Gas_withdraw
    \/ Gas_batch_withdraw
    \/ Resolve_nft_transfer

SpecGas == InitGas /\ [][NextGas]_vars

-----------------------------------------------------------------------------
(* Properties of the vault ledger (specification Spec) *)

RECURSIVE SumOver(_, _)
SumOver(f, S) ==
    IF S = {} THEN 0
    ELSE LET x == CHOOSE y \in S : TRUE IN f[x] + SumOver(f, S \ {x})

\* The sum of all account balances of a ledger
SumBalances(s) == SumOver(s.accounts, DOMAIN s.accounts)

\* The transfer requests a step adds to the pending ones
Issued == transfers' (-) transfers

\* Every account but c has the same balance before and after the step
OthersKept(c) ==
    /\ DOMAIN V'.accounts \ {c} = DOMAIN V.accounts \ {c}
    /\ \A a \in DOMAIN V.accounts \ {c} : V'.accounts[a] = V.accounts[a]

\* C1: for the initialised vault, in every state where no remote step is
\* pending, total_supply equals the sum of all account balances.
C1_SupplyIsSumOfBalances ==
    (V.exists /\ transfers = EmptyBag) => V.total_supply = SumBalances(V)

\* Deposits, burns, a parameter change and the remote steps have all run and
\* both holders own shares
C1_Witness ==
    /\ V.exists
    /\ transfers = EmptyBag
    /\ last.op = "nft_transfer"
    /\ V.nft_value # NftValueInit
    /\ ft_balance_of(V, Alice) > 0
    /\ ft_balance_of(V, Bob) > 0
    /\ V.total_supply > ft_balance_of(V, Alice) + ft_balance_of(V, Bob)

\* C5: withdraw (count 1) and batch_withdraw (count = number of ids) are
\* rejected when the caller's balance is below nft_value x count, leaving
\* the ledger unchanged and issuing no transfer request; when they succeed,
\* the caller's balance and total_supply each decrease by exactly
\* nft_value x count and exactly count transfer requests to the caller are
\* issued.
C5_WithdrawDebitsExactly ==
    [][last'.op \in {"withdraw", "batch_withdraw"} =>
         LET c == last'.who
             cost == V.nft_value * last'.n
         IN  /\ ft_balance_of(V, c) < cost => ~last'.ok
             /\ IF last'.ok
                THEN /\ ft_balance_of(V', c) = ft_balance_of(V, c) - cost
                     /\ V'.total_supply = V.total_supply - cost
                     /\ BagCardinality(Issued) = last'.n
                     /\ \A r \in BagToSet(Issued) : r.receiver_id = c
                ELSE UNCHANGED <<vault, transfers>>]_vars

\* C6: multi_nft_deposits with n ids increases the caller's balance and
\* total_supply by exactly n x nft_value, registers the caller when absent,
\* changes no other balance and issues one inbound transfer request per id,
\* all in the step of the call, while those requests are still pending.
C6_DepositCreditsExactly ==
    [][(last'.op = "multi_nft_deposits" /\ last'.ok) =>
         LET c == last'.who
             amount == last'.n * V.nft_value
         IN  /\ c \in DOMAIN V'.accounts
             /\ ft_balance_of(V', c) = ft_balance_of(V, c) + amount
             /\ V'.total_supply = V.total_supply + amount
             /\ OthersKept(c)
             /\ BagCardinality(Issued) = last'.n
             /\ transfers' = transfers (+) Issued
             /\ \A r \in BagToSet(Issued) : r.receiver_id = TheVault]_vars

\* C7: a deposit of one asset by an account immediately followed by a
\* withdraw by the same account succeeds and leaves that account's balance
\* and total_supply equal to their values before the deposit.
C7_RoundTrip ==
    (last.op = "withdraw" /\ last.round) =>
        /\ last.ok
        /\ ft_balance_of(V, last.who) = last.bal
        /\ V.total_supply = last.total

\* A round trip at the initial nft_value by a holder who owned shares before
C7_Witness ==
    /\ last.op = "withdraw"
    /\ last.round
    /\ last.ok
    /\ V.nft_value = NftValueInit
    /\ last.bal > 0
    /\ last.total >= last.bal + NftValueInit

\* C8: get_infos returns supply = total_supply / nft_value - 1 with the
\* current name, symbol and media whenever total_supply >= nft_value > 0,
\* and fails in every state where total_supply < nft_value or nft_value = 0.
C8_GetInfoOrFail ==
    last.op = "get_infos" =>
        IF V.exists /\ V.nft_value > 0 /\ V.total_supply >= V.nft_value
        THEN /\ last.ok
             /\ last.info = [name |-> V.vault_name,
                             symbol |-> V.vault_symbol,
                             supply |-> (V.total_supply \div V.nft_value) - 1,
                             media |-> V.feature_media]
        ELSE ~last.ok

\* setParams returns exactly for the factory recorded at init, and a failed
\* call changes nothing
C9_Authorised ==
    last'.op = "setParams" =>
        /\ last'.ok <=> (V.exists /\ last'.who = V.factory_contract_address)
        /\ ~last'.ok => UNCHANGED <<vault, transfers>>

\* A successful setParams overwrites exactly name, symbol, nft_value, media
C9_Overwrites ==
    (last'.op = "setParams" /\ last'.ok) =>
        /\ V' = [V EXCEPT !.vault_name = last'.info.name,
                          !.vault_symbol = last'.info.symbol,
                          !.nft_value = last'.info.supply,
                          !.feature_media = last'.info.media]
        /\ UNCHANGED transfers

\* After init the four fields change only in a successful setParams step
C9_OnlyBySetParams ==
    (/\ V.exists
     /\ <<V'.vault_name, V'.vault_symbol, V'.nft_value, V'.feature_media>>
          # <<V.vault_name, V.vault_symbol, V.nft_value, V.feature_media>>) =>
        /\ last'.op = "setParams"
        /\ last'.ok
        /\ last'.who = V.factory_contract_address

\* A get_infos that returns, returns the name, symbol and media of the
\* vault, which are those of the last successful setParams (C9_Overwrites,
\* C9_OnlyBySetParams); right after setParams, those it was given
C9_ReflectedWhenReturned ==
    (last'.op = "get_infos" /\ last'.ok) =>
        /\ last'.info.name = V.vault_name
        /\ last'.info.symbol = V.vault_symbol
        /\ last'.info.media = V.feature_media
        /\ (last.op = "setParams" /\ last.ok) =>
              /\ last'.info.name = last.info.name
              /\ last'.info.symbol = last.info.symbol
              /\ last'.info.media = last.info.media

\* The get_infos right after a successful setParams returns
C9_NextGetInfoReturns ==
    (last.op = "setParams" /\ last.ok /\ last'.op = "get_infos") => last'.ok

\* C9 as stated: setParams by anyone but the recorded factory fails and
\* leaves name, symbol, nft_value and media unchanged; by the factory it
\* succeeds, overwrites exactly those four fields, and the next get_infos
\* returns the new name, symbol and media; nft_value changes only in a
\* setParams step of the factory.
C9_SetParamsThenGetInfo ==
    [][/\ C9_Authorised
       /\ C9_Overwrites
       /\ C9_OnlyBySetParams
       /\ C9_NextGetInfoReturns
       /\ C9_ReflectedWhenReturned]_vars

\* C11: init_vault returns only on a vault that is not yet initialised; it
\* then sets nft_value to 100 * 10^24 (NftValueInit), records the caller as
\* factory_contract_address and seeds the ledger so that total_supply and
\* the vault's own balance both equal nft_value and no other account has a
\* balance; on an initialised vault it fails and changes nothing, and an
\* initialised vault stays initialised.
C11_InitOnce ==
    [][/\ V.exists => V'.exists
       /\ last'.op = "init_vault" =>
            /\ last'.ok <=> ~V.exists
            /\ IF last'.ok
               THEN /\ V'.exists
                    /\ V'.nft_value = NftValueInit
                    /\ V'.factory_contract_address = last'.who
                    /\ V'.total_supply = V'.nft_value
                    /\ DOMAIN V'.accounts = {TheVault}
                    /\ ft_balance_of(V', TheVault) = V'.nft_value
                    /\ UNCHANGED transfers
               ELSE UNCHANGED <<vault, transfers>>]_vars

\* A second init_vault has failed on a vault whose ledger and nft_value
\* had moved on since the first
C11_Witness ==
    /\ last.op = "init_vault"
    /\ ~last.ok
    /\ V.exists
    /\ V.factory_contract_address = Alice
    /\ V.nft_value # NftValueInit
    /\ ft_balance_of(V, Bob) > 0

\* Pending requests of the vault that move an asset into / out of custody
PendingIn ==
    BagCardinality([r \in {x \in BagToSet(transfers) : Inbound(x)} |-> transfers[r]])

PendingOut ==
    BagCardinality([r \in {x \in BagToSet(transfers) : ~Inbound(x)} |-> transfers[r]])

\* total_supply / nft_value - 1 in unbounded integers
ReportedSupply(s) == (s.total_supply \div s.nft_value) - 1

\* Assets in custody, counting every pending inbound request as arrived and
\* every pending outbound request as handed out, cover the reported supply
Backed ==
    /\ V.exists
    /\ V.nft_value > 0
    /\ custody + PendingIn - PendingOut >= ReportedSupply(V)

\* The step is the failure of an inbound transfer request
FailedInbound ==
    /\ last'.op = "nft_transfer"
    /\ ~last'.ok
    /\ \E r \in BagToSet(transfers (-) transfers') : Inbound(r)

\* C12 as stated: in every reachable state of the initialised vault where
\* no remote step is pending, the assets in custody are at least
\* total_supply / nft_value - 1.
C12_Redeemable ==
    (V.exists /\ V.nft_value > 0 /\ transfers = EmptyBag) =>
        custody >= ReportedSupply(V)

\* C12 amended: counting every pending inbound request as arrived and every
\* pending outbound request as handed out, the assets in custody are at
\* least total_supply / nft_value - 1 right after init_vault, and while
\* nft_value stays at its initial value every step keeps it so except the
\* failure of an inbound transfer request.
C12_BackedUnlessInboundFails ==
    [][/\ (last'.op = "init_vault" /\ last'.ok) => Backed'
       /\ (/\ Backed
           /\ V.nft_value = NftValueInit
           /\ V'.nft_value = NftValueInit
           /\ ~FailedInbound) => Backed']_vars

\* Two deposited assets have arrived, nothing is pending, custody equals the
\* reported supply
C12_Witness ==
    /\ V.exists
    /\ V.nft_value = NftValueInit
    /\ transfers = EmptyBag
    /\ last.op = "nft_transfer"
    /\ last.ok
    /\ custody = 2
    /\ ReportedSupply(V) = 2

\* C13: in every reachable state of the initialised vault
\* total_supply >= nft_value and nft_value > 0, so get_infos can neither
\* underflow nor divide by zero.
C13_SeedInvariant ==
    V.exists => (V.nft_value > 0 /\ V.total_supply >= V.nft_value)

\* The ids a step credits (deposit) or debits (withdraw, batch_withdraw)
IdsDelta ==
    IF ~last'.ok THEN 0
    ELSE IF last'.op = "multi_nft_deposits" THEN last'.n
    ELSE IF last'.op \in {"withdraw", "batch_withdraw"} THEN 0 - last'.n
    ELSE 0

\* get_infos reports 0 right after init_vault
C14_ZeroAfterInit ==
    (last'.op = "init_vault" /\ last'.ok) =>
        (get_infos_ok(V') /\ get_infos(V').supply = 0)

\* C14 as stated: in every reachable state of the initialised vault the
\* supply get_infos reports is the number of ids credited by deposits minus
\* the number debited by withdraw and batch_withdraw since init_vault; that
\* is, it is 0 after init_vault and every step changes it by exactly the
\* ids that step credits or debits.
C14_SupplyCountsAssets ==
    [][/\ C14_ZeroAfterInit
       /\ (V.exists /\ get_infos_ok(V)) =>
            /\ get_infos_ok(V')
            /\ get_infos(V').supply = get_infos(V).supply + IdsDelta]_vars

\* A step of the ledger that may burn shares without handing out an
\* asset: closing an account, or resolving a transfer whose sender is gone
BurningStep == last'.op \in {"storage_unregister", "ft_resolve_transfer"}

\* C14 amended: the supply get_infos reports is 0 after init_vault, and as
\* long as nft_value is the value set by init_vault every step changes what
\* get_infos returns by exactly the ids that step credits or debits, except
\* that closing an account and resolving a transfer never raise it and may
\* lower it by the shares they burn.
C14_SupplyCountsAssetsAtInitValue ==
    [][/\ C14_ZeroAfterInit
       /\ (/\ V.nft_value = NftValueInit
           /\ V'.nft_value = NftValueInit
           /\ get_infos_ok(V)
           /\ get_infos_ok(V')) =>
            IF BurningStep
            THEN get_infos(V').supply <= get_infos(V).supply
            ELSE get_infos(V').supply = get_infos(V).supply + IdsDelta]_vars

\* After a deposit of two ids and a withdraw, get_infos reports 1
C14_Witness ==
    /\ last.op = "withdraw"
    /\ last.ok
    /\ V.nft_value = NftValueInit
    /\ get_infos_ok(V)
    /\ get_infos(V).supply = 1
    /\ BagCardinality(transfers) = 1

\* C15: the resolution of a transfer request, whether it succeeds or fails,
\* removes that request and leaves every balance, total_supply and every
\* other field of the vault unchanged: shares credited by a deposit remain
\* after its transfer fails and shares burned by a withdraw are not restored.
C15_NoReconciliation ==
    [][last'.op = "nft_transfer" =>
         /\ UNCHANGED vault
         /\ BagCardinality(transfers (-) transfers') = 1
         /\ transfers = transfers' (+) (transfers (-) transfers')]_vars

\* A withdraw's transfer has failed; the burned shares are gone, the shares
\* of the other deposit stay, and no asset ever reached custody
C15_Witness ==
    /\ last.op = "nft_transfer"
    /\ ~last.ok
    /\ transfers = EmptyBag
    /\ custody = 0
    /\ V.nft_value = NftValueInit
    /\ ft_balance_of(V, Alice) = 0
    /\ Alice \in DOMAIN V.accounts
    /\ ft_balance_of(V, Bob) = NftValueInit

\* C16: swap171 returns on every initialised vault whatever the caller's
\* balance and the vault's custody; it issues exactly two transfer requests,
\* _in to the vault and _out to the caller, and leaves every balance,
\* total_supply, nft_value and the metadata unchanged.
C16_SwapFrame ==
    [][last'.op = "swap171" =>
         /\ last'.ok <=> V.exists
         /\ UNCHANGED vault
         /\ IF last'.ok
            THEN \E i, o \in TokenIds :
                    transfers' = transfers (+) SetToBag({Req(TheVault, TheVault, i)})
                                           (+) SetToBag({Req(TheVault, last'.who, o)})
            ELSE UNCHANGED transfers]_vars

\* C17: whatever transfers are still pending, a withdraw or batch_withdraw
\* that returns at a positive nft_value issues requests for at most
\* floor(balance / nft_value) assets and debits nft_value per asset in the
\* same step, so the next call sees the reduced balance: an account never
\* gets more outbound requests than floor(shares / nft_value), and a caller
\* holding exactly nft_value has a second withdraw rejected.
C17_DebitBeforeResolve ==
    [][(last'.op \in {"withdraw", "batch_withdraw"} /\ last'.ok /\ V.nft_value > 0) =>
         /\ last'.n <= ft_balance_of(V, last'.who) \div V.nft_value
         /\ ft_balance_of(V', last'.who)
              = ft_balance_of(V, last'.who) - last'.n * V.nft_value
         /\ BagCardinality(Issued) = last'.n]_vars

-----------------------------------------------------------------------------
(* Properties of the factory (specification SpecFactory) *)

\* C2: nft141Pair for an origin that already has a record fails and leaves
\* both lookup tables and the counter unchanged; the k-th successful
\* creation is stored under index k-1 (k-1 being the number of records
\* before it), and the counter increases by exactly 1 per successful
\* creation and in no other step.
C2_CreateOncePerOrigin ==
    [][/\ last'.op = "nft141Pair" =>
            /\ last'.ok <=> last'.who \notin DOMAIN nft_to_token
            /\ IF last'.ok
               THEN /\ counter = Cardinality(DOMAIN nft_to_token)
                    /\ counter \notin DOMAIN index_to_nft
                    /\ index_to_nft' = Put(index_to_nft, counter, last'.who)
                    /\ DOMAIN nft_to_token' = DOMAIN nft_to_token \cup {last'.who}
                    /\ counter' = counter + 1
               ELSE UNCHANGED <<nft_to_token, index_to_nft, counter>>
       /\ counter' # counter => (last'.op = "nft141Pair" /\ last'.ok)]_vars

\* Two origins are registered under indices 0 and 1 and a further call for
\* a registered origin has failed
C2_Witness ==
    /\ last.op = "nft141Pair"
    /\ ~last.ok
    /\ counter = 2
    /\ index_to_nft[0] # index_to_nft[1]
    /\ last.who = index_to_nft[0]

\* The two lookup tables agree with the counter
C3_Consistent ==
    /\ DOMAIN index_to_nft = 0..(counter - 1)
    /\ {index_to_nft[i] : i \in DOMAIN index_to_nft} = DOMAIN nft_to_token
    /\ \A i, j \in DOMAIN index_to_nft : index_to_nft[i] = index_to_nft[j] => i = j
    /\ \A o \in DOMAIN nft_to_token : nft_to_token[o] \in PairIds

\* No step changes or removes an existing record
C3_Immutable ==
    /\ DOMAIN index_to_nft \subseteq DOMAIN index_to_nft'
    /\ DOMAIN nft_to_token \subseteq DOMAIN nft_to_token'
    /\ \A i \in DOMAIN index_to_nft : index_to_nft'[i] = index_to_nft[i]
    /\ \A o \in DOMAIN nft_to_token : nft_to_token'[o] = nft_to_token[o]

\* C3: in every reachable factory state every index below the counter has
\* an origin, every index from the counter on has none, every registered
\* origin has exactly one vault address, no origin appears under two
\* indices, and no later step changes or removes a field of a record.
C3_TablesConsistent == []C3_Consistent /\ [][C3_Immutable]_vars

\* Two records exist and the cache was filled by a later operation
C3_Witness ==
    /\ counter = 2
    /\ Cardinality(DOMAIN nft_to_token) = 2
    /\ last.op = "pair_info_callback"
    /\ Len(pairs_info) > 0

\* C4: for any two records with different origins the recorded vault
\* addresses are different, whatever the symbol arguments were.
C4_AddressesDistinct ==
    \A o1, o2 \in DOMAIN nft_to_token : o1 # o2 => nft_to_token[o1] # nft_to_token[o2]

\* C10: after a refreshAllPairsInfo over the n created vaults whose n info
\* requests have all resolved successfully, in whatever order, the cache has
\* exactly n entries whose contents, as a set, are the get_infos values of
\* the n vaults, and getAllPairsInfo returns that cache.
C10_RefreshFillsCache ==
    (sweep = "clean" /\ InFlight(InfoKinds) = 0) =>
        /\ Len(pairs_info) = counter
        /\ {pairs_info[i] : i \in 1..Len(pairs_info)}
             = {get_infos(vault[getPairAddressByIndex(i)]) : i \in 0..(counter - 1)}
        /\ getAllPairsInfo = pairs_info

\* Two vaults with different infos, swept, the answers arriving in the
\* reverse of creation order
C10_Witness ==
    /\ sweep = "clean"
    /\ InFlight(InfoKinds) = 0
    /\ counter = 2
    /\ Len(pairs_info) = 2
    /\ pairs_info[1] # pairs_info[2]
    /\ pairs_info[1] = get_infos(vault[getPairAddressByIndex(1)])
    /\ pairs_info[2] = get_infos(vault[getPairAddressByIndex(0)])

\* The callback receipt executed by the step
Resumed == CHOOSE r \in BagToSet(receipts) :
               r.kind = "pair_info_callback" /\ receipts' = receipts (-) SetToBag({r})

\* C18: a callback whose info request failed aborts and leaves the cache as
\* it was; a callback whose request succeeded appends exactly one entry at
\* the end of the cache, the info the vault returned; getPairByNftAddress
\* succeeds exactly for an index below the counter, issuing one get_infos
\* request to the recorded vault, and otherwise issues no request.
C18_CallbackOutcome ==
    [][/\ (last'.op = "pair_info_callback" /\ ~last'.ok) => pairs_info' = pairs_info
       /\ (last'.op = "pair_info_callback" /\ last'.ok) =>
            /\ Len(pairs_info') = Len(pairs_info) + 1
            /\ SubSeq(pairs_info', 1, Len(pairs_info)) = pairs_info
            /\ Resumed.ok
            /\ to_json(pairs_info'[Len(pairs_info')]) = Resumed.result
       /\ last'.op = "getPairByNftAddress" =>
            /\ last'.ok <=> last'.n < counter
            /\ UNCHANGED <<pairs_info, nft_to_token, index_to_nft, counter>>
            /\ receipts' = IF last'.ok
                           THEN receipts (+) SetToBag({InfosReceipt(
                                    nft_to_token[index_to_nft[last'.n]])})
                           ELSE receipts]_vars

\* A request to a vault that is not initialised yet has failed, and the
\* entry cached before it is still there
C18_Witness ==
    /\ last.op = "pair_info_callback"
    /\ ~last.ok
    /\ Len(pairs_info) = 1
    /\ counter = 2

\* C19 as stated: in every reachable factory state the cache holds at most
\* one entry per created vault, so its length never exceeds the counter.
C19_CacheWithinCount == Len(pairs_info) <= counter

\* Entries cached and info requests pending, whoever scheduled them
InfoLoad == Len(pairs_info) + InFlight(InfoKinds)

\* The step schedules one more info callback: a direct getPairByNftAddress
\* that returned, or a pair_info_callback attached by another account
SchedulesOne ==
    \/ last'.op = "getPairByNftAddress" /\ last'.ok
    \/ last'.op = "then"

\* C19 amended: the cache is bounded by the info callbacks scheduled, not
\* by the counter. A refreshAllPairsInfo empties the cache and adds one
\* pending request per recorded vault; a direct getPairByNftAddress and a
\* callback attached by any other account each add exactly one; no other
\* step raises the number of cached entries plus pending requests, in
\* whatever order the callbacks resolve; and the counter never decreases.
\* So cached plus pending is at most the counter from a refreshAllPairsInfo
\* that started with nothing pending until the next step that schedules one.
C19_CacheFollowsRequests ==
    [][/\ counter' >= counter
       /\ IF last'.op = "refreshAllPairsInfo" /\ last'.ok
          THEN /\ Len(pairs_info') = 0
               /\ InfoLoad' = InFlight(InfoKinds) + counter
               /\ InFlight(InfoKinds) = 0 => InfoLoad' <= counter'
          ELSE IF SchedulesOne
          THEN InfoLoad' = InfoLoad + 1
          ELSE /\ InfoLoad' <= InfoLoad
               /\ InfoLoad <= counter => InfoLoad' <= counter']_vars

\* A sweep over two vaults with one answer cached by its callback and the
\* other pending
C19_Witness ==
    /\ sweep = "clean"
    /\ last.op = "pair_info_callback"
    /\ last.ok
    /\ counter = 2
    /\ Len(pairs_info) = 1
    /\ InFlight(InfoKinds) = 1

\* C20: an entry is appended to the cache only by a callback that the
\* factory itself attached to one of its get_infos requests (its
\* predecessor is the factory), so that every cached entry is the get_infos
\* result of a recorded vault and no other account can make
\* pair_info_callback append.
C20_OnlyOwnCallbacks ==
    [][Len(pairs_info') > Len(pairs_info) =>
         /\ last'.op = "pair_info_callback"
         /\ last'.who = FactoryId]_vars

-----------------------------------------------------------------------------
(* Properties of the attached gas (specification SpecGas) *)

\* C21: for swap171, multi_nft_deposits, withdraw and batch_withdraw with
\* any number n >= 1 of ids, the gas attached to the promises of a call
\* that returned adds up to strictly less than the gas prepaid for the call.
C21_AttachedBelowPrepaid ==
    last.budgets # <<>> => SumGas(last.budgets) < last.prepaid_gas

====
